---------------------------- MODULE Spec2Model ----------------------------
(***************************************************************************)
(* Signature verification cache with xorshift-driven random eviction       *)
(* (txscript/sigcache_xor_eviction.go): SigCacheXor, NewSigCacheXor,        *)
(* Exists and Add.                                                          *)
(*                                                                          *)
(* Two specifications share the cache state:                                *)
(*   Spec      calls run one at a time, each Add / Exists is one action;    *)
(*   SpecConc  goroutines interleave, every step of sync.RWMutex and of     *)
(*             the critical sections is its own action.                     *)
(*                                                                          *)
(* Scaling: a hash is HashWords big-endian words of WordBits bits instead   *)
(* of four 64-bit words; byte-lexicographic order of the 32 bytes is the    *)
(* lexicographic order of the words.  The generator is xorshift128+ with    *)
(* its two state words reduced to WordBits bits.                            *)
(***************************************************************************)
EXTENDS Integers, Sequences, FiniteSets, TLC

\* ------------------------------------------------------------------ bounds
WordBits == 2
MaxCap == 2
NumProcs == 3

\* number of generator draws that make one random hash (loop bound, line 94)
HashWords == 4

WordMod == 2 ^ WordBits
Words == 0 .. (WordMod - 1)

\* ------------------------------------------------------------ value domains
ZeroHash == <<0, 0, 0, 0>>
MidHash == <<1, 2, 3, 0>>
HighHash == <<3, 3, 3, 3>>
KeyHashes == {ZeroHash, MidHash, HighHash}
Sigs == {"s1", "s2"}
PubKeys == {"k1", "k2"}
Procs == 1 .. NumProcs

VARIABLES
    validSigs,   \* map sigHash -> sigCacheEntry (a function on the stored keys)
    maxEntries,  \* capacity given to NewSigCacheXor
    xorShift,    \* generator state, two words
    last,        \* history: the call that completed last under Spec; before
                 \* the first call, the seed NewSigCacheXor read
    recent,      \* history: per key, the pair added last and not evicted since
    gone,        \* history of SpecRecorded: keys once stored and not stored now
    built,       \* what NewSigCacheXor returned, and from which entropy read
    pc,          \* SpecConc: position of every goroutine
    call,        \* SpecConc: arguments of the call a goroutine is running
    ret,         \* SpecConc: value returned by a goroutine's last Exists
    rw,          \* SpecConc: the embedded sync.RWMutex
    committed    \* history: the map as left by the last completed Add

cacheVars == <<validSigs, maxEntries, xorShift>>
histVars == <<last, recent, gone, built>>
concVars == <<pc, call, ret, rw, committed>>
vars == <<validSigs, maxEntries, xorShift, last, recent, gone, built, pc, call,
          ret, rw, committed>>

\* ------------------------------------------------------------- map helpers
EmptyMap == [k \in {} |-> [sig |-> "s1", pubKey |-> "k1"]]

sigCacheEntry(sig, pubKey) == [sig |-> sig, pubKey |-> pubKey]

MapLen(m) == Cardinality(DOMAIN m)

\* mutant: the delete leaves the map as it is
MapDeleteNoop(m, k) == m

MapDelete(m, k) == [x \in (DOMAIN m) \ {k} |-> m[x]]

MapStore(m, k, e) == [x \in (DOMAIN m) \cup {k} |-> IF x = k THEN e ELSE m[x]]

\* every order in which a range statement may visit the keys of the map
RECURSIVE ScanOrders(_)
ScanOrders(S) ==
    IF S = {} THEN {<<>>}
    ELSE UNION {{<<k>> \o rest : rest \in ScanOrders(S \ {k})} : k \in S}

\* ---------------------------------------------------------------- generator
RECURSIVE Xor(_, _)
Xor(a, b) ==
    IF a = 0 /\ b = 0 THEN 0
    ELSE ((a + b) % 2) + 2 * Xor(a \div 2, b \div 2)

ShiftL(x, n) == (x * (2 ^ n)) % WordMod
ShiftR(x, n) == x \div (2 ^ n)

\* xorshift128+ seeded from one word: the two state words are never both zero
NewXorShift128Plus(seed) == <<seed, Xor(seed, WordMod - 1)>>

\* one Next(): the new state and the word returned.  The shift distances
\* 23, 17 and 26 of the 64-bit generator are reduced modulo the word width.
XorShiftNext(s) ==
    LET s1 == s[1]
        s0 == s[2]
        t  == Xor(s1, ShiftL(s1, 23 % WordBits))
        n1 == Xor(Xor(Xor(t, s0), ShiftR(t, 17 % WordBits)),
                  ShiftR(s0, 26 % WordBits))
    IN  [state |-> <<s0, n1>>, out |-> (n1 + s0) % WordMod]

\* the random hash: HashWords successive draws, stored big-endian in order
RECURSIVE Draws(_, _, _)
Draws(s, n, acc) ==
    IF n = 0 THEN [state |-> s, hash |-> acc]
    ELSE LET nx == XorShiftNext(s)
         IN  Draws(nx.state, n - 1, Append(acc, nx.out))

\* Draws tabulated once for every generator state
RECURSIVE RandHashTable(_)
RandHashTable(S) ==
    IF S = {} THEN <<>>
    ELSE LET s == CHOOSE x \in S : TRUE
         IN  (s :> Draws(s, HashWords, <<>>)) @@ RandHashTable(S \ {s})

RandHashT == RandHashTable(Words \X Words)

\* mutant: the loop stops one draw short and the last word stays zero
RandHashThreeDraws(s) ==
    LET d == Draws(s, HashWords - 1, <<>>)
    IN  [state |-> d.state, hash |-> Append(d.hash, 0)]

RandHash(s) == RandHashT[s]

\* ---------------------------------------------------------------- eviction
\* bytes.Compare(a, b) > 0
RECURSIVE GreaterFrom(_, _, _)
GreaterFrom(a, b, i) ==
    IF i > HashWords THEN FALSE
    ELSE IF a[i] # b[i] THEN a[i] > b[i]
    ELSE GreaterFrom(a, b, i + 1)

Greater(a, b) == GreaterFrom(a, b, 1)

\* the range loop of Add: foundEntry after visiting order[i..]
RECURSIVE ScanFrom(_, _, _, _)
ScanFrom(order, i, foundEntry, randHash) ==
    IF i > Len(order) THEN foundEntry
    ELSE LET sigEntry == order[i]
             found1 == IF foundEntry = ZeroHash THEN sigEntry ELSE foundEntry
         IN  IF Greater(sigEntry, randHash) THEN sigEntry
             ELSE ScanFrom(order, i + 1, found1, randHash)

\* mutant: the fallback assignment of the scan is missing
FoundEntryNoFallback(order, randHash) ==
    LET hits == {i \in 1 .. Len(order) : Greater(order[i], randHash)}
    IN  IF hits = {} THEN ZeroHash
        ELSE order[CHOOSE i \in hits : \A j \in hits : i <= j]

\* mutant: the break is missing, the last key greater than randHash wins
FoundEntryLastMatch(order, randHash) ==
    LET hits == {i \in 1 .. Len(order) : Greater(order[i], randHash)}
    IN  IF hits = {} THEN ScanFrom(order, 1, ZeroHash, randHash)
        ELSE order[CHOOSE i \in hits : \A j \in hits : i >= j]

\* foundEntry when the loop ends; it starts as the zero value of wire.ShaHash
FoundEntry(order, randHash) == ScanFrom(order, 1, ZeroHash, randHash)

\* the eviction branch of Add: draw the random hash, scan, delete foundEntry
EvictOne(m, s, order) ==
    LET rh == RandHash(s)
        foundEntry == FoundEntry(order, rh.hash)
    IN  [map |-> MapDelete(m, foundEntry), rng |-> rh.state,
         victim |-> foundEntry, randHash |-> rh.hash]

\* mutant: the capacity test is never true
ZeroCapacityNever(cap) == cap < 0

\* mutant: the eviction test is off by one
OverMaxOffByOne(m, cap) == MapLen(m) > cap

\* s.maxEntries <= 0
ZeroCapacity(cap) == cap <= 0

\* uint(len(s.validSigs)+1) > s.maxEntries
OverMax(m, cap) == MapLen(m) + 1 > cap

\* ------------------------------------------------------------ the two calls
\* mutant: only the public key is compared
ExistsInPubKeyOnly(m, sigHash, sig, pubKey) ==
    IF sigHash \in DOMAIN m THEN m[sigHash].pubKey = pubKey ELSE FALSE

\* Exists: the value returned for a lookup in map m
ExistsIn(m, sigHash, sig, pubKey) ==
    IF sigHash \in DOMAIN m
    THEN m[sigHash].pubKey = pubKey /\ m[sigHash].sig = sig
    ELSE FALSE

\* mutant: the entry is stored before the eviction runs
AddResultStoreFirst(m, cap, s, order, sigHash, sig, pubKey) ==
    IF ZeroCapacity(cap)
    THEN [map |-> m, rng |-> s, evicted |-> FALSE, victim |-> ZeroHash]
    ELSE LET stored == MapStore(m, sigHash, sigCacheEntry(sig, pubKey))
         IN  IF OverMax(m, cap)
             THEN LET ev == EvictOne(stored, s, <<sigHash>> \o order)
                  IN  [map |-> ev.map, rng |-> ev.rng, evicted |-> TRUE,
                       victim |-> ev.victim]
             ELSE [map |-> stored, rng |-> s, evicted |-> FALSE,
                   victim |-> ZeroHash]

\* Add on map m, capacity cap, generator state s, with the range statement
\* visiting the keys in the given order: the map and generator it leaves
AddResult(m, cap, s, order, sigHash, sig, pubKey) ==
    IF ZeroCapacity(cap)
    THEN [map |-> m, rng |-> s, evicted |-> FALSE, victim |-> ZeroHash]
    ELSE IF OverMax(m, cap)
    THEN LET ev == EvictOne(m, s, order)
         IN  [map |-> MapStore(ev.map, sigHash, sigCacheEntry(sig, pubKey)),
              rng |-> ev.rng, evicted |-> TRUE, victim |-> ev.victim]
    ELSE [map |-> MapStore(m, sigHash, sigCacheEntry(sig, pubKey)),
          rng |-> s, evicted |-> FALSE, victim |-> ZeroHash]

NoEntry == [sig |-> "none", pubKey |-> "none"]

NoCall ==
    [op |-> "none", sigHash |-> ZeroHash, sig |-> "s1", pubKey |-> "k1",
     ret |-> FALSE, before |-> EmptyMap, rngBefore |-> <<0, 0>>,
     capBefore |-> 0,
     evicted |-> FALSE, victim |-> ZeroHash, order |-> <<>>, seed |-> 0]

\* ------------------------------------------------------------ construction
\* mutant: the error of the entropy read is dropped and the cache returned,
\* seeded from the bytes left in the buffer
NewSigCacheXorIgnoresErr(cap, readOk, seed) ==
    /\ validSigs = EmptyMap
    /\ maxEntries = cap
    /\ xorShift = NewXorShift128Plus(IF readOk THEN seed ELSE 0)
    /\ built = [cache |-> TRUE, err |-> FALSE, capArg |-> cap,
                readOk |-> readOk]

\* NewSigCacheXor(cap): rand.Read either fails (readOk false: nil and the
\* error are returned, the struct allocated at line 42 is dropped with its
\* generator unset) or fills the 8 bytes that become seed
NewSigCacheXor(cap, readOk, seed) ==
    /\ validSigs = EmptyMap
    /\ maxEntries = cap
    /\ xorShift = IF readOk THEN NewXorShift128Plus(seed) ELSE <<0, 0>>
    /\ built = [cache |-> readOk, err |-> ~readOk, capArg |-> cap,
                readOk |-> readOk]

\* the zero value of the embedded sync.RWMutex.  readerCount is kept as the
\* number of readers plus the flag pending (Go stores count - 2^30 while a
\* writer has announced itself); w holds the goroutine owning the writer mutex
RWMutexZero ==
    [w |-> 0, readerCount |-> 0, pending |-> FALSE, readerWait |-> 0,
     readerSem |-> 0, writerSem |-> 0]

\* a goroutine's call frame; r is the local r of RWMutex.Lock
NoArgs == [sigHash |-> ZeroHash, sig |-> "s1", pubKey |-> "k1", r |-> 0]

Init ==
    /\ \E cap \in 0 .. MaxCap, readOk \in BOOLEAN, seed \in Words :
          /\ NewSigCacheXor(cap, readOk, seed)
          /\ last = [NoCall EXCEPT !.seed = IF readOk THEN seed ELSE 0]
    /\ recent = [h \in KeyHashes |-> NoEntry]
    /\ gone = {}
    /\ pc = [p \in Procs |-> "idle"]
    /\ call = [p \in Procs |-> NoArgs]
    /\ ret = [p \in Procs |-> FALSE]
    /\ rw = RWMutexZero
    /\ committed = EmptyMap

\* --------------------------------------------- Spec: one call at a time
\* mutant: a lookup that finds another pair under the hash drops the entry
ExistsDropsStale(sigHash, sig, pubKey) ==
    /\ built.cache
    /\ last' = [NoCall EXCEPT !.op = "Exists", !.sigHash = sigHash, !.sig = sig,
                              !.pubKey = pubKey,
                              !.ret = ExistsIn(validSigs, sigHash, sig, pubKey),
                              !.before = validSigs, !.rngBefore = xorShift,
                              !.capBefore = maxEntries]
    /\ validSigs' = IF sigHash \in DOMAIN validSigs
                       /\ ~ExistsIn(validSigs, sigHash, sig, pubKey)
                    THEN MapDelete(validSigs, sigHash) ELSE validSigs
    /\ UNCHANGED <<maxEntries, xorShift, recent, gone, built, concVars>>

\* a call needs the cache NewSigCacheXor returned
Exists(sigHash, sig, pubKey) ==
    /\ built.cache
    /\ last' = [NoCall EXCEPT !.op = "Exists", !.sigHash = sigHash, !.sig = sig,
                              !.pubKey = pubKey,
                              !.ret = ExistsIn(validSigs, sigHash, sig, pubKey),
                              !.before = validSigs, !.rngBefore = xorShift,
                              !.capBefore = maxEntries]
    /\ UNCHANGED <<cacheVars, recent, gone, built, concVars>>

\* the orders the range statement of Add can take: it runs only when evicting
AddOrders(m, cap) ==
    IF ~ZeroCapacity(cap) /\ OverMax(m, cap) THEN ScanOrders(DOMAIN m) ELSE {<<>>}

AddCall(sigHash, sig, pubKey) ==
    /\ built.cache
    /\ \E order \in AddOrders(validSigs, maxEntries) :
        \E r \in {AddResult(validSigs, maxEntries, xorShift, order,
                            sigHash, sig, pubKey)} :
            /\ validSigs' = r.map
            /\ xorShift' = r.rng
            /\ last' = [NoCall EXCEPT !.op = "Add", !.sigHash = sigHash,
                                      !.sig = sig, !.pubKey = pubKey,
                                      !.before = validSigs,
                                      !.rngBefore = xorShift,
                                      !.capBefore = maxEntries,
                                      !.evicted = r.evicted,
                                      !.victim = r.victim,
                                      !.order = order]
            /\ recent' = IF maxEntries = 0 THEN recent
                         ELSE [h \in KeyHashes |->
                                 IF h = sigHash THEN sigCacheEntry(sig, pubKey)
                                 ELSE IF r.evicted /\ h = r.victim THEN NoEntry
                                 ELSE recent[h]]
    /\ committed' = validSigs'
    /\ UNCHANGED <<maxEntries, built, pc, call, ret, rw>>

\* a completed Add
Add(sigHash, sig, pubKey) == AddCall(sigHash, sig, pubKey) /\ UNCHANGED gone

Next ==
    \/ \E h \in KeyHashes, s \in Sigs, k \in PubKeys : Add(h, s, k)
    \/ \E h \in KeyHashes, s \in Sigs, k \in PubKeys : Exists(h, s, k)

Spec == Init /\ [][Next]_vars

\* ----------------------------------------------- calls with the keys lost
\* a completed Add, with the record of the keys that were stored and are not
AddRecorded(sigHash, sig, pubKey) ==
    /\ AddCall(sigHash, sig, pubKey)
    /\ gone' = (gone \cup (DOMAIN validSigs)) \ (DOMAIN validSigs')

NextRecorded ==
    \/ \E h \in KeyHashes, s \in Sigs, k \in PubKeys : AddRecorded(h, s, k)
    \/ \E h \in KeyHashes, s \in Sigs, k \in PubKeys : Exists(h, s, k)

SpecRecorded == Init /\ [][NextRecorded]_vars

\* ------------------------------------- SpecConc: interleaved goroutines
\* arguments used by the concurrent calls
ConcHashes == {MidHash, HighHash}

InitConc ==
    /\ \E cap \in 0 .. MaxCap : NewSigCacheXor(cap, TRUE, 0)
    /\ last = NoCall
    /\ recent = [h \in KeyHashes |-> NoEntry]
    /\ gone = {}
    /\ pc = [p \in Procs |-> "idle"]
    /\ call = [p \in Procs |-> NoArgs]
    /\ ret = [p \in Procs |-> FALSE]
    /\ rw = RWMutexZero
    /\ committed = EmptyMap

ReturnFrom(p) ==
    /\ pc' = [pc EXCEPT ![p] = "idle"]
    /\ call' = [call EXCEPT ![p] = NoArgs]

\* a goroutine calls Add
CallAdd(p, sigHash, sig, pubKey) ==
    /\ pc[p] = "idle"
    /\ pc' = [pc EXCEPT ![p] = "a_lock"]
    /\ call' = [call EXCEPT ![p] = [sigHash |-> sigHash, sig |-> sig,
                                    pubKey |-> pubKey, r |-> 0]]
    /\ UNCHANGED <<cacheVars, histVars, ret, rw, committed>>

\* a goroutine calls Exists
CallExists(p, sigHash, sig, pubKey) ==
    /\ pc[p] = "idle"
    /\ pc' = [pc EXCEPT ![p] = "e_rlock"]
    /\ call' = [call EXCEPT ![p] = [sigHash |-> sigHash, sig |-> sig,
                                    pubKey |-> pubKey, r |-> 0]]
    /\ UNCHANGED <<cacheVars, histVars, ret, rw, committed>>

\* s.Lock(), step 1: rw.w.Lock(), competition between writers
WLock(p) ==
    /\ pc[p] = "a_lock"
    /\ rw.w = 0
    /\ rw' = [rw EXCEPT !.w = p]
    /\ pc' = [pc EXCEPT ![p] = "a_announce"]
    /\ UNCHANGED <<cacheVars, histVars, call, ret, committed>>

\* mutant: the writer does not wait for the readers inside
AnnounceNoWait(p) ==
    /\ pc[p] = "a_announce"
    /\ rw' = [rw EXCEPT !.pending = TRUE]
    /\ call' = [call EXCEPT ![p].r = 0]
    /\ pc' = [pc EXCEPT ![p] = "a_cs"]
    /\ UNCHANGED <<cacheVars, histVars, ret, committed>>

\* s.Lock(), step 2: announce the pending writer, r := readers now inside
Announce(p) ==
    /\ pc[p] = "a_announce"
    /\ rw' = [rw EXCEPT !.pending = TRUE]
    /\ call' = [call EXCEPT ![p].r = rw.readerCount]
    /\ pc' = [pc EXCEPT ![p] = IF rw.readerCount # 0 THEN "a_readerwait"
                                ELSE "a_cs"]
    /\ UNCHANGED <<cacheVars, histVars, ret, committed>>

\* s.Lock(), step 3: readerWait += r; wait unless they have all left already
ReaderWaitAdd(p) ==
    /\ pc[p] = "a_readerwait"
    /\ rw' = [rw EXCEPT !.readerWait = @ + call[p].r]
    /\ call' = [call EXCEPT ![p].r = 0]
    /\ pc' = [pc EXCEPT ![p] = IF rw.readerWait + call[p].r # 0 THEN "a_wait"
                                ELSE "a_cs"]
    /\ UNCHANGED <<cacheVars, histVars, ret, committed>>

\* s.Lock(), step 4: sleep on writerSem until the last reader releases it
WaitWriterSem(p) ==
    /\ pc[p] = "a_wait"
    /\ rw.writerSem > 0
    /\ rw' = [rw EXCEPT !.writerSem = @ - 1]
    /\ pc' = [pc EXCEPT ![p] = "a_cs"]
    /\ UNCHANGED <<cacheVars, histVars, call, ret, committed>>

\* Add, lines 85-116: the capacity test and the eviction
AddBody(p) ==
    /\ pc[p] = "a_cs"
    /\ IF ZeroCapacity(maxEntries)
       THEN /\ pc' = [pc EXCEPT ![p] = "a_unlock"]
            /\ UNCHANGED <<validSigs, xorShift>>
       ELSE IF OverMax(validSigs, maxEntries)
       THEN \E order \in ScanOrders(DOMAIN validSigs) :
            \E ev \in {EvictOne(validSigs, xorShift, order)} :
                /\ validSigs' = ev.map
                /\ xorShift' = ev.rng
                /\ pc' = [pc EXCEPT ![p] = "a_store"]
       ELSE /\ pc' = [pc EXCEPT ![p] = "a_store"]
            /\ UNCHANGED <<validSigs, xorShift>>
    /\ UNCHANGED <<maxEntries, histVars, call, ret, rw, committed>>

\* Add, line 118: store the entry
AddStore(p) ==
    /\ pc[p] = "a_store"
    /\ validSigs' = MapStore(validSigs, call[p].sigHash,
                             sigCacheEntry(call[p].sig, call[p].pubKey))
    /\ pc' = [pc EXCEPT ![p] = "a_unlock"]
    /\ UNCHANGED <<maxEntries, xorShift, histVars, call, ret, rw, committed>>

\* mutant: the writer leaves without waking the readers queued up behind it
UnlockNoWake(p) ==
    /\ pc[p] = "a_unlock"
    /\ rw' = [rw EXCEPT !.pending = FALSE]
    /\ committed' = validSigs
    /\ pc' = [pc EXCEPT ![p] = "a_wunlock"]
    /\ UNCHANGED <<cacheVars, histVars, call, ret>>

\* deferred s.Unlock(), step 1: withdraw the announcement, wake the readers
\* that queued up behind the writer
Unlock(p) ==
    /\ pc[p] = "a_unlock"
    /\ rw' = [rw EXCEPT !.pending = FALSE, !.readerSem = @ + rw.readerCount]
    /\ committed' = validSigs
    /\ pc' = [pc EXCEPT ![p] = "a_wunlock"]
    /\ UNCHANGED <<cacheVars, histVars, call, ret>>

\* deferred s.Unlock(), step 2: rw.w.Unlock(); Add returns
WUnlock(p) ==
    /\ pc[p] = "a_wunlock"
    /\ rw' = [rw EXCEPT !.w = 0]
    /\ ReturnFrom(p)
    /\ UNCHANGED <<cacheVars, histVars, ret, committed>>

\* mutant: a reader does not look for a pending writer
RLockIgnoresWriter(p) ==
    /\ pc[p] = "e_rlock"
    /\ rw' = [rw EXCEPT !.readerCount = @ + 1]
    /\ pc' = [pc EXCEPT ![p] = "e_cs"]
    /\ UNCHANGED <<cacheVars, histVars, call, ret, committed>>

\* mutant: a reader also queues up behind another reader
RLockExclusive(p) ==
    /\ pc[p] = "e_rlock"
    /\ rw' = [rw EXCEPT !.readerCount = @ + 1]
    /\ pc' = [pc EXCEPT ![p] = IF rw.pending \/ rw.readerCount > 0
                                THEN "e_rwait" ELSE "e_cs"]
    /\ UNCHANGED <<cacheVars, histVars, call, ret, committed>>

\* s.RLock(): count the reader in; queue up if a writer is pending
RLock(p) ==
    /\ pc[p] = "e_rlock"
    /\ rw' = [rw EXCEPT !.readerCount = @ + 1]
    /\ pc' = [pc EXCEPT ![p] = IF rw.pending THEN "e_rwait" ELSE "e_cs"]
    /\ UNCHANGED <<cacheVars, histVars, call, ret, committed>>

\* s.RLock(), blocked: sleep on readerSem until the writer's Unlock
WaitReaderSem(p) ==
    /\ pc[p] = "e_rwait"
    /\ rw.readerSem > 0
    /\ rw' = [rw EXCEPT !.readerSem = @ - 1]
    /\ pc' = [pc EXCEPT ![p] = "e_cs"]
    /\ UNCHANGED <<cacheVars, histVars, call, ret, committed>>

\* Exists, lines 67-71: the lookup and the two Equals
ExistsBody(p) ==
    /\ pc[p] = "e_cs"
    /\ ret' = [ret EXCEPT ![p] = ExistsIn(validSigs, call[p].sigHash,
                                          call[p].sig, call[p].pubKey)]
    /\ pc' = [pc EXCEPT ![p] = "e_runlock"]
    /\ UNCHANGED <<cacheVars, histVars, call, rw, committed>>

\* deferred s.RUnlock(): count the reader out
RUnlock(p) ==
    /\ pc[p] = "e_runlock"
    /\ rw' = [rw EXCEPT !.readerCount = @ - 1]
    /\ IF rw.pending
       THEN /\ pc' = [pc EXCEPT ![p] = "e_rslow"]
            /\ UNCHANGED <<call, ret>>
       ELSE /\ ReturnFrom(p)
            /\ ret' = [ret EXCEPT ![p] = FALSE]
    /\ UNCHANGED <<cacheVars, histVars, committed>>

\* rUnlockSlow: a writer is pending; the last reader to leave wakes it
RUnlockSlow(p) ==
    /\ pc[p] = "e_rslow"
    /\ rw' = [rw EXCEPT !.readerWait = @ - 1,
                        !.writerSem = IF rw.readerWait - 1 = 0 THEN @ + 1 ELSE @]
    /\ ReturnFrom(p)
    /\ ret' = [ret EXCEPT ![p] = FALSE]
    /\ UNCHANGED <<cacheVars, histVars, committed>>

NextConc ==
    \E p \in Procs :
        \/ \E h \in ConcHashes : CallAdd(p, h, "s1", "k1")
        \/ \E h \in ConcHashes : CallExists(p, h, "s1", "k1")
        \/ WLock(p)
        \/ Announce(p)
        \/ ReaderWaitAdd(p)
        \/ WaitWriterSem(p)
        \/ AddBody(p)
        \/ AddStore(p)
        \/ Unlock(p)
        \/ WUnlock(p)
        \/ RLock(p)
        \/ WaitReaderSem(p)
        \/ ExistsBody(p)
        \/ RUnlock(p)
        \/ RUnlockSlow(p)

SpecConc == InitConc /\ [][NextConc]_vars

\* ------------------------------------------------------- fair scheduling
\* the steps of goroutine p after its call has begun
Step(p) ==
    \/ WLock(p)
    \/ Announce(p)
    \/ ReaderWaitAdd(p)
    \/ WaitWriterSem(p)
    \/ AddBody(p)
    \/ AddStore(p)
    \/ Unlock(p)
    \/ WUnlock(p)
    \/ RLock(p)
    \/ WaitReaderSem(p)
    \/ ExistsBody(p)
    \/ RUnlock(p)
    \/ RUnlockSlow(p)

\* The Go scheduler runs every goroutine that stays runnable.  A goroutine in
\* rw.w.Lock() can find the mutex taken again by another writer, and a reader
\* woken on readerSem can find its token taken by a reader that arrived
\* later (semacquire tries the count before it queues); sync.Mutex hands the
\* lock to a waiter that was passed over (starvation mode) and the semaphore
\* queue wakes its waiters in turn, so a goroutine that can take the lock
\* again and again does take it.  Nothing obliges a caller to make a call.
Fairness ==
    \A p \in Procs :
        /\ WF_vars(Step(p))
        /\ SF_vars(WLock(p))
        /\ SF_vars(WaitReaderSem(p))

\* the capacities below MaxCap: the zero-capacity return and, with the two
\* keys of ConcHashes, hit, miss and eviction
InitFair == InitConc /\ maxEntries < MaxCap

SpecFair == InitFair /\ [][NextConc]_vars /\ Fairness

\* ------------------------------------------------------------------ claims
LastEntry == sigCacheEntry(last.sig, last.pubKey)

\* C1: with capacity C > 0 the map never holds more than C entries, after
\* every completed Add and Exists, whatever the keys, the generator output
\* and the scan order.
C1_CapacityInvariant ==
    maxEntries > 0 => MapLen(validSigs) <= maxEntries

\* an Add has just evicted and the map is exactly full
C1_Witness ==
    /\ last.op = "Add" /\ last.evicted
    /\ maxEntries > 0 /\ MapLen(validSigs) = maxEntries

\* C2: with capacity 0 the map stays empty after any Add, and every Exists,
\* for any hash, signature and public key, returns false.
C2_ZeroCapacity ==
    maxEntries = 0 =>
        /\ validSigs = EmptyMap
        /\ last.op = "Exists" => ~last.ret
        /\ \A h \in KeyHashes, s \in Sigs, k \in PubKeys :
              ~ExistsIn(validSigs, h, s, k)

\* an Add has completed on a zero-capacity cache
C2_Witness == maxEntries = 0 /\ last.op = "Add"

\* C3 (as claimed): an Add of a triple that is already present neither
\* evicts nor changes the cache, at every fill level.
C3_Idempotence ==
    (last.op = "Add" /\ ExistsIn(last.before, last.sigHash, last.sig, last.pubKey))
        => /\ ~last.evicted
           /\ MapLen(validSigs) = MapLen(last.before)
           /\ validSigs = last.before
           /\ xorShift = last.rngBefore

\* C4: a key holds the pair added last under it until it is evicted: Exists
\* on that pair returns true, on any other pair under the key false, and on
\* a key that is not stored false.
C4_Membership ==
    maxEntries > 0 =>
        /\ \A h \in KeyHashes, s \in Sigs, k \in PubKeys :
              ExistsIn(validSigs, h, s, k) <=> (recent[h] = sigCacheEntry(s, k))
        /\ last.op = "Exists" =>
              (last.ret <=> (recent[last.sigHash] = LastEntry))

\* an Exists has returned false for a stored hash asked with another pair
C4_Witness ==
    /\ last.op = "Exists" /\ ~last.ret
    /\ last.sigHash \in DOMAIN validSigs
    /\ validSigs[last.sigHash].sig = last.sig
    /\ validSigs[last.sigHash].pubKey # last.pubKey
    /\ \E h \in KeyHashes : recent[h] = NoEntry /\ h # last.sigHash

\* C5: an Add of a key that is not stored, on a full map, removes exactly
\* one stored entry and adds the new one: the map is full again.
C5_EvictionCount ==
    (/\ last.op = "Add" /\ maxEntries > 0
     /\ MapLen(last.before) = maxEntries
     /\ last.sigHash \notin DOMAIN last.before)
        => /\ MapLen(validSigs) = maxEntries
           /\ Cardinality((DOMAIN last.before) \ (DOMAIN validSigs)) = 1
           /\ (DOMAIN validSigs) \ (DOMAIN last.before) = {last.sigHash}

\* a new key has been added to a full map of two entries
C5_Witness ==
    /\ last.op = "Add" /\ maxEntries = 2
    /\ MapLen(last.before) = 2
    /\ last.sigHash \notin DOMAIN last.before
    /\ last.evicted

\* C6: right after Add(h, s, p) on a cache of capacity > 0 the map holds
\* h -> (s, p) and Exists(h, s, p) is true, at every fill level; with
\* capacity 1 the map holds exactly the key added last.
C6_AddedIsPresent ==
    (last.op = "Add" /\ maxEntries > 0)
        => /\ last.sigHash \in DOMAIN validSigs
           /\ validSigs[last.sigHash] = LastEntry
           /\ ExistsIn(validSigs, last.sigHash, last.sig, last.pubKey)
           /\ maxEntries = 1 => DOMAIN validSigs = {last.sigHash}

\* an Add has evicted on a full map, here of capacity 1 with another key
C6_Witness ==
    /\ last.op = "Add" /\ last.evicted /\ maxEntries = 1
    /\ last.victim # last.sigHash
    /\ last.victim \in DOMAIN last.before

\* C7: Exists leaves the map, the capacity and the generator as they were;
\* asked for a stored hash with another pair it returns false and the stored
\* entry stays.
C7_ExistsFrame ==
    last.op = "Exists" =>
        /\ validSigs = last.before
        /\ xorShift = last.rngBefore
        /\ maxEntries = last.capBefore
        /\ (last.sigHash \in DOMAIN last.before
              /\ last.before[last.sigHash] # LastEntry)
             => /\ ~last.ret
                /\ last.sigHash \in DOMAIN validSigs
                /\ validSigs[last.sigHash] = last.before[last.sigHash]

\* an Exists has missed on a stored hash whose pair differs
C7_Witness ==
    /\ last.op = "Exists" /\ ~last.ret
    /\ last.sigHash \in DOMAIN validSigs
    /\ validSigs[last.sigHash] # LastEntry

\* a goroutine is inside the critical section of Add: Lock has returned and
\* the deferred Unlock has not begun
InAddCS(p) == pc[p] \in {"a_cs", "a_store", "a_unlock"}

\* a goroutine is inside the critical section of Exists
InExistsCS(p) == pc[p] \in {"e_cs", "e_runlock"}

\* an Add has called Lock, has announced itself and waits for readers to leave
AddWaits(p) == pc[p] \in {"a_readerwait", "a_wait"}

\* an Exists sleeps in RLock and nothing has woken it
ReaderBlocked(p) == pc[p] = "e_rwait" /\ rw.readerSem = 0

\* C8: at most one Add is inside its critical section, and while one is, no
\* Exists is inside its own.
C8_WriterExclusion ==
    /\ Cardinality({p \in Procs : InAddCS(p)}) <= 1
    /\ (\E p \in Procs : InAddCS(p)) => ~(\E q \in Procs : InExistsCS(q))

\* an Add is between eviction and store while another Add and an Exists wait
C8_Witness ==
    \E p, q, r \in Procs :
        pc[p] = "a_store" /\ pc[q] = "a_lock" /\ pc[r] = "e_rwait"

\* C9: every Exists reads, and every Add starts from, a map left by a
\* completed Add (never the state with the victim deleted and the new entry
\* missing), and the value an Exists returns is the membership test on that
\* map.
C9_Atomicity ==
    \A p \in Procs :
        /\ pc[p] \in {"e_cs", "a_cs"} => validSigs = committed
        /\ pc[p] = "e_runlock" =>
              /\ validSigs = committed
              /\ ret[p] = ExistsIn(committed, call[p].sigHash, call[p].sig,
                                   call[p].pubKey)

\* an Add has deleted its victim and not yet stored while an Exists waits
C9_Witness ==
    \E p, q \in Procs :
        /\ pc[p] = "a_store" /\ validSigs # committed
        /\ MapLen(validSigs) < MapLen(committed)
        /\ pc[q] = "e_rwait"

\* C10 (as claimed): an Exists is blocked only while an Add holds the lock.
C10_BlockedOnlyByHolder ==
    \A p \in Procs : ReaderBlocked(p) => \E q \in Procs : InAddCS(q)

\* C10 (amended): an Exists is blocked only while an Add holds the lock or
\* has announced itself in Lock and waits for it; otherwise readers enter
\* together and none waits for another.
C10_ReaderParallelism ==
    \A p \in Procs :
        ReaderBlocked(p) => \E q \in Procs : InAddCS(q) \/ AddWaits(q)

\* two Exists calls are inside their critical sections at the same time
C10_Witness ==
    \E p, q \in Procs :
        /\ p # q /\ pc[p] = "e_cs" /\ pc[q] = "e_cs"
        /\ ~rw.pending /\ rw.readerCount >= 2

\* ------------------------------------------------------------------ C11
\* C11: construction either fails or yields a fully initialised cache.  A
\* failed entropy read returns the error and no cache, so no call is ever
\* made on one; a successful read returns a cache and no error, with the
\* capacity the caller gave and, before the first call, an empty map and a
\* generator seeded from the bytes read.  No later call reports an error.
C11_Construction ==
    /\ ~built.readOk => /\ built.err /\ ~built.cache
                        /\ last.op = "none"
                        /\ validSigs = EmptyMap
    /\ built.readOk => /\ ~built.err /\ built.cache
                       /\ maxEntries = built.capArg
                       /\ last.op = "none" =>
                             /\ validSigs = EmptyMap
                             /\ xorShift = NewXorShift128Plus(last.seed)

\* the entropy read has failed
C11_Witness == ~built.readOk /\ built.err /\ ~built.cache

\* ------------------------------------------------------------------ C12
\* the threshold drawn by the last Add
LastRandHash == RandHash(last.rngBefore).hash

\* positions of the last scan whose key is greater than the threshold
LastHits == {i \in 1 .. Len(last.order) : Greater(last.order[i], LastRandHash)}

\* C12 (as claimed): when an eviction runs and no stored key is greater than
\* the threshold, the deleted key is the first key the scan visited, whatever
\* the map holds.
C12_Fallback ==
    (last.op = "Add" /\ last.evicted /\ LastHits = {})
        => last.victim = last.order[1]

\* ------------------------------------------------------------------ C13
\* C13: when an eviction runs and some stored key is greater than the
\* threshold, the deleted key is the first such key in scan order, and the
\* keys after it in the order have no influence.
C13_FirstMatchWins ==
    (last.op = "Add" /\ last.evicted /\ LastHits # {})
        => LET first == CHOOSE i \in LastHits : \A j \in LastHits : i <= j
           IN  /\ last.victim = last.order[first]
               /\ last.victim = FoundEntry(SubSeq(last.order, 1, first),
                                           LastRandHash)

\* two keys are greater than the threshold and the one visited first, the
\* smaller of the two, has been deleted
C13_Witness ==
    /\ last.op = "Add" /\ last.evicted
    /\ Len(last.order) = 2 /\ LastHits = {1, 2}
    /\ Greater(last.order[2], last.order[1])
    /\ last.victim = last.order[1]
    /\ last.victim \notin DOMAIN validSigs

\* ------------------------------------------------------------------ C14
\* the keys an Add may touch: the key added and, if it evicted, the victim
LastTouched ==
    {last.sigHash} \cup (IF last.evicted THEN {last.victim} ELSE {})

\* C14: an eviction runs on a map that is not empty and deletes exactly one
\* key, a key that was stored; an Add leaves every key other than the victim
\* and the key added with the pair it had, and adds no other key.
C14_AddFrame ==
    last.op = "Add" =>
        /\ last.evicted =>
              /\ DOMAIN last.before # {}
              /\ last.victim \in DOMAIN last.before
              /\ (DOMAIN last.before) \ (DOMAIN validSigs)
                    = {last.victim} \ {last.sigHash}
        /\ \A k \in (DOMAIN last.before) \ LastTouched :
              k \in DOMAIN validSigs /\ validSigs[k] = last.before[k]
        /\ (DOMAIN validSigs) \ (DOMAIN last.before) \subseteq {last.sigHash}

\* an Add has evicted one of two stored keys and the other, which is not the
\* key added, holds the pair it had, a pair other than the one added
C14_Witness ==
    /\ last.op = "Add" /\ last.evicted /\ MapLen(last.before) = 2
    /\ last.victim # last.sigHash
    /\ \E k \in (DOMAIN last.before) \ LastTouched :
          /\ k \in DOMAIN validSigs
          /\ validSigs[k] = last.before[k]
          /\ validSigs[k] # LastEntry

\* ------------------------------------------------------------------ C15
\* C15 (as claimed): an Add removes a stored entry only if the map held
\* exactly capacity entries when it began; a call that begins below capacity
\* removes nothing; and whenever the map holds fewer entries than the
\* capacity, every key added so far is stored with the pair added last.
C15_NoEvictionBelowCapacity ==
    /\ (last.op = "Add" /\ (DOMAIN last.before) \ (DOMAIN validSigs) # {})
          => MapLen(last.before) = last.capBefore
    /\ (last.op \in {"Add", "Exists"} /\ MapLen(last.before) < last.capBefore)
          => \A k \in DOMAIN last.before :
                /\ k \in DOMAIN validSigs
                /\ k # last.sigHash => validSigs[k] = last.before[k]
    /\ MapLen(validSigs) < maxEntries
          => /\ gone = {}
             /\ \A h \in KeyHashes :
                   recent[h] # NoEntry =>
                       h \in DOMAIN validSigs /\ validSigs[h] = recent[h]

\* ------------------------------------------------------------------ C16
\* four successive Next() calls from generator state s
FourDraws(s) ==
    LET n1 == XorShiftNext(s)
        n2 == XorShiftNext(n1.state)
        n3 == XorShiftNext(n2.state)
        n4 == XorShiftNext(n3.state)
    IN  [state |-> n4.state, hash |-> <<n1.out, n2.out, n3.out, n4.out>>]

\* C16: Exists, an Add on a zero-capacity cache and an Add that does not
\* evict leave the generator state as it was; an evicting Add advances it
\* by exactly four successive draws, and these four words, in order, are the
\* threshold the victim was chosen against.
C16_GeneratorUse ==
    /\ last.op = "Exists" => xorShift = last.rngBefore
    /\ (last.op = "Add" /\ ~last.evicted) => xorShift = last.rngBefore
    /\ (last.op = "Add" /\ last.capBefore = 0) =>
          ~last.evicted /\ xorShift = last.rngBefore
    /\ (last.op = "Add" /\ last.evicted) =>
          /\ xorShift = FourDraws(last.rngBefore).state
          /\ last.victim = FoundEntry(last.order,
                                      FourDraws(last.rngBefore).hash)

\* an evicting Add has left the generator in another state than it found
C16_Witness ==
    /\ last.op = "Add" /\ last.evicted
    /\ xorShift # last.rngBefore
    /\ xorShift = FourDraws(last.rngBefore).state

\* ------------------------------------------------------------------ C18
\* goroutine p holds rw.w: from rw.w.Lock() to rw.w.Unlock()
HoldsW(p) ==
    pc[p] \in {"a_announce", "a_readerwait", "a_wait", "a_cs", "a_store",
               "a_unlock", "a_wunlock"}

\* goroutine p is counted in readerCount: from RLock to RUnlock
CountedReader(p) == pc[p] \in {"e_rwait", "e_cs", "e_runlock"}

\* a call that has returned has left nothing of the lock held
LockReleased ==
    /\ \A p \in Procs : HoldsW(p) <=> rw.w = p
    /\ rw.readerCount = Cardinality({p \in Procs : CountedReader(p)})
    /\ (\A p \in Procs : pc[p] = "idle") => rw = RWMutexZero

\* while a call is under way some call under way can take a step, and the
\* body of Add, scan included, can always be run to its end
NoDeadlock ==
    /\ (\E p \in Procs : pc[p] # "idle") => \E p \in Procs : ENABLED Step(p)
    /\ \A p \in Procs : pc[p] = "a_cs" => ENABLED AddBody(p)

\* C18: every call that takes the lock gives it back on every path, the scan
\* of an eviction ends, no state with a call under way is stuck, and under
\* fair scheduling every call that was made returns.
C18_Progress ==
    /\ [](LockReleased /\ NoDeadlock)
    /\ \A p \in Procs : (pc[p] # "idle") ~> (pc[p] = "idle")

\* an Add is about to release the lock while an Exists and another Add wait
C18_Witness ==
    \E p, q, r \in Procs :
        /\ pc[p] = "a_unlock"
        /\ pc[q] = "e_rwait" /\ rw.readerSem = 0
        /\ pc[r] = "a_lock"

=============================================================================
